---- MODULE Spec2Model ----
(***************************************************************************)
(* ilanvys/HashMap: a separate-chaining hash table (HashMap.hpp) and its   *)
(* string-keyed subclass Dictionary (Dictionary.hpp).                      *)
(*                                                                         *)
(* Two table objects "a" and "b" live side by side.  Each is a record      *)
(* [map, size, capacity] as in the class; map is the bucket array, a       *)
(* function from 0..capacity-1 to sequences of entries [first, second].    *)
(* The hash functor is an arbitrary function chosen once.                  *)
(*                                                                         *)
(* Spec     : table "a" under insert, erase, clear and operator[]          *)
(* SpecDict : Spec with Dictionary::update                                 *)
(* SpecQuery: Spec with at, bucket_size and bucket_index                   *)
(* SpecCtor : construction of "a" from a key and a value vector            *)
(* SpecGrow : GrowN distinct keys inserted into a default table            *)
(* SpecPair : tables "a" and "b" under insert, erase, clear, copy          *)
(*            construction and assignment                                  *)
(***************************************************************************)
EXTENDS Integers, Sequences, FiniteSets, TLC

\* ---------------------------------------------------------------- bounds
MaxKey  == 2      \* keys are 1..MaxKey
MaxVal  == 1      \* values are 0..MaxVal ; 0 is ValueT()
MaxHash == 2      \* hash_func(key) ranges over 0..MaxHash
MaxUpd  == 2      \* longest pair sequence handed to Dictionary::update
MaxVec  == 2      \* longest key or value vector handed to the constructor
GrowN   == 13     \* keys 1..GrowN are inserted into one default table

Keys    == 1..MaxKey
Values  == 0..MaxVal
Default == 0
Objs    == {"a", "b"}
Kinds   == {"HashMap", "Dictionary"}
KeyNotFound == -1   \* at() throwing runtime_error, a result outside Values

\* ------------------------------------------------- constants of the source
INITIAL_SIZE      == 0
INITIAL_CAPACITY  == 16
MIN_CAPACITY      == 1
UPPER_LOAD_FACTOR == 75   \* percent
LOWER_LOAD_FACTOR == 25   \* percent

VARIABLES
  hash_func,   \* the std::hash functor: [Keys -> 0..MaxHash]
  obj,         \* obj[o] = [map, size, capacity] of table object o
  kind,        \* dynamic type of each object
  inserted,    \* history: inserted[o][k] = {v} when a successful insert put k in
               \* with v and k was not erased or overwritten since, else {}
  op,          \* history: the last call [name, o, args, seq]
  ret          \* history: what the last call returned or threw, [tag, val]

vars == <<hash_func, obj, kind, inserted, op, ret>>

\* ------------------------------------------------------------ arithmetic
RECURSIVE BitAnd(_, _)
BitAnd(x, y) ==
  IF x = 0 \/ y = 0 THEN 0
  ELSE (x % 2) * (y % 2) + 2 * BitAnd(x \div 2, y \div 2)

Entry(k, v) == [first |-> k, second |-> v]

NewMap(cap) == [i \in 0..(cap - 1) |-> <<>>]

\* ---------------------------------------------------- protected members
get_hash_index(t, key) == BitAnd(hash_func[key], t.capacity - 1)

\* variant: growth as soon as the load factor reaches UPPER_LOAD_FACTOR
LoadAbove_orEqual(t) == t.size * 100 >= UPPER_LOAD_FACTOR * t.capacity

\* get_load_factor() > UPPER_LOAD_FACTOR and < LOWER_LOAD_FACTOR, in percent
LoadAbove(t) == t.size * 100 > UPPER_LOAD_FACTOR * t.capacity
LoadBelow(t) == t.size * 100 < LOWER_LOAD_FACTOR * t.capacity

\* the old buckets in the order move_elements_from reads them
RECURSIVE OldEntries(_, _, _)
OldEntries(old_map, i, old_size) ==
  IF i >= old_size THEN <<>>
  ELSE old_map[i] \o OldEntries(old_map, i + 1, old_size)

RECURSIVE PushAll(_, _)
PushAll(t, es) ==
  IF es = <<>> THEN t
  ELSE LET index == get_hash_index(t, Head(es).first)
       IN  PushAll([t EXCEPT !.map[index] = Append(@, Head(es))], Tail(es))

\* variant: every element goes to the index it had under the old capacity
RECURSIVE PushAllStale(_, _, _)
PushAllStale(t, es, old_size) ==
  IF es = <<>> THEN t
  ELSE LET index == BitAnd(hash_func[Head(es).first], old_size - 1)
       IN  PushAllStale([t EXCEPT !.map[index] = Append(@, Head(es))], Tail(es),
                        old_size)

move_elements_stale(t, old_map, old_size) ==
  PushAllStale(t, OldEntries(old_map, 0, old_size), old_size)

move_elements_from(t, old_map, old_size) ==
  PushAll(t, OldEntries(old_map, 0, old_size))

\* t.capacity is already the new capacity
resize_map(t, old_size) ==
  move_elements_from([t EXCEPT !.map = NewMap(t.capacity)], t.map, old_size)

RECURSIVE GrowLoop(_, _)
GrowLoop(t, increase) ==
  IF LoadAbove(t) /\ increase
  THEN GrowLoop(resize_map([t EXCEPT !.capacity = @ * 2], t.capacity), increase)
  ELSE t

\* variant: the shrink loop halving at most once
ShrinkLoop_once(t, increase) ==
  IF LoadBelow(t) /\ ~increase /\ t.capacity > MIN_CAPACITY
  THEN resize_map([t EXCEPT !.capacity = @ \div 2], t.capacity)
  ELSE t

\* variant: the shrink loop without its capacity > MIN_CAPACITY test
RECURSIVE ShrinkLoop_noMin(_, _)
ShrinkLoop_noMin(t, increase) ==
  IF LoadBelow(t) /\ ~increase /\ t.capacity >= MIN_CAPACITY
  THEN ShrinkLoop_noMin(resize_map([t EXCEPT !.capacity = @ \div 2], t.capacity),
                        increase)
  ELSE t

RECURSIVE ShrinkLoop(_, _)
ShrinkLoop(t, increase) ==
  IF LoadBelow(t) /\ ~increase /\ t.capacity > MIN_CAPACITY
  THEN ShrinkLoop(resize_map([t EXCEPT !.capacity = @ \div 2], t.capacity), increase)
  ELSE t

\* variant: each while of handle_resize written as an if
handle_resize_once(t, increase) ==
  LET g == IF LoadAbove(t) /\ increase
           THEN resize_map([t EXCEPT !.capacity = @ * 2], t.capacity)
           ELSE t
  IN  IF LoadBelow(g) /\ ~increase /\ g.capacity > MIN_CAPACITY
      THEN resize_map([g EXCEPT !.capacity = @ \div 2], g.capacity)
      ELSE g

\* variant: both loops run whatever the flag says
handle_resize_bothWays(t, increase) == ShrinkLoop(GrowLoop(t, TRUE), FALSE)

handle_resize(t, increase) == ShrinkLoop(GrowLoop(t, increase), increase)

RECURSIVE NextFrom(_, _)
NextFrom(t, i) ==
  IF i >= t.capacity THEN t.capacity
  ELSE IF t.map[i] # <<>> THEN i
  ELSE NextFrom(t, i + 1)

get_next_index_with_elements(t, curr_index) == NextFrom(t, curr_index + 1)

\* --------------------------------------------------------- constructors
HashMap0 ==
  [map |-> NewMap(INITIAL_CAPACITY), size |-> INITIAL_SIZE,
   capacity |-> INITIAL_CAPACITY]

\* ------------------------------- HashMap(vector<KeyT>, vector<ValueT>)
\* the slot of an object whose constructor threw: there is no table
NoTable == [map |-> <<>>, size |-> 0, capacity |-> 0]

\* --------------------------------------------------------------- lookup
\* position of key in a bucket, 0 when it is not there
RECURSIVE Find(_, _, _)
Find(bucket, key, j) ==
  IF j > Len(bucket) THEN 0
  ELSE IF bucket[j].first = key THEN j
  ELSE Find(bucket, key, j + 1)

contains_key(t, key) == Find(t.map[get_hash_index(t, key)], key, 1) # 0

\* at(): the value, or KeyNotFound for the runtime_error
at(t, key) ==
  LET index == get_hash_index(t, key)
      j     == Find(t.map[index], key, 1)
  IN  IF j = 0 THEN KeyNotFound ELSE t.map[index][j].second

\* variant: bucket_size without the at(key) that throws for an absent key
bucket_size_noCheck(t, key) == Len(t.map[get_hash_index(t, key)])

\* bucket_size(): at(key) first, so KeyNotFound for an absent key
bucket_size(t, key) ==
  IF at(t, key) = KeyNotFound THEN KeyNotFound
  ELSE Len(t.map[get_hash_index(t, key)])

\* bucket_index(): at(key) first, so KeyNotFound for an absent key
bucket_index(t, key) ==
  IF at(t, key) = KeyNotFound THEN KeyNotFound
  ELSE get_hash_index(t, key)

\* ------------------------------------------------------------- mutators
\* variant: insert that overwrites the value of a key already present
insert_overwrite(t, key, value) ==
  LET index == get_hash_index(t, key)
      j     == Find(t.map[index], key, 1)
  IN  IF j # 0
      THEN [t |-> [t EXCEPT !.map[index][j].second = value], ret |-> FALSE]
      ELSE [t |-> handle_resize(
                    [t EXCEPT !.map[index] = Append(@, Entry(key, value)),
                              !.size = @ + 1], TRUE),
            ret |-> TRUE]

\* variant: insert without the scan for a key already present
insert_noScan(t, key, value) ==
  LET index == get_hash_index(t, key)
  IN  [t |-> handle_resize(
               [t EXCEPT !.map[index] = Append(@, Entry(key, value)),
                         !.size = @ + 1], TRUE),
       ret |-> TRUE]

\* insert(): the table afterwards and the returned bool
insert(t, key, value) ==
  LET index == get_hash_index(t, key)
  IN  IF Find(t.map[index], key, 1) # 0
      THEN [t |-> t, ret |-> FALSE]
      ELSE [t |-> handle_resize(
                    [t EXCEPT !.map[index] = Append(@, Entry(key, value)),
                              !.size = @ + 1], TRUE),
            ret |-> TRUE]

RemoveAt(s, j) == SubSeq(s, 1, j - 1) \o SubSeq(s, j + 1, Len(s))

\* variant: erase that leaves _size alone
HashMap_erase_keepSize(t, key) ==
  LET index == get_hash_index(t, key)
      j     == Find(t.map[index], key, 1)
  IN  IF j # 0
      THEN [t |-> handle_resize([t EXCEPT !.map[index] = RemoveAt(@, j)], FALSE),
            ret |-> "true"]
      ELSE [t |-> t, ret |-> "false"]

HashMap_erase(t, key) ==
  LET index == get_hash_index(t, key)
      j     == Find(t.map[index], key, 1)
  IN  IF j # 0
      THEN [t |-> handle_resize(
                    [t EXCEPT !.map[index] = RemoveAt(@, j),
                              !.size = @ - 1], FALSE),
            ret |-> "true"]
      ELSE [t |-> t, ret |-> "false"]

\* variant: Dictionary::erase that returns false as the base class does
Dictionary_erase_noThrow(t, key) ==
  LET index == get_hash_index(t, key)
      j     == Find(t.map[index], key, 1)
  IN  IF j # 0
      THEN [t |-> handle_resize(
                    [t EXCEPT !.map[index] = RemoveAt(@, j),
                              !.size = @ - 1], FALSE),
            ret |-> "true"]
      ELSE [t |-> t, ret |-> "false"]

\* Dictionary::erase: the same scan, but the fall-through throws InvalidKey
Dictionary_erase(t, key) ==
  LET index == get_hash_index(t, key)
      j     == Find(t.map[index], key, 1)
  IN  IF j # 0
      THEN [t |-> handle_resize(
                    [t EXCEPT !.map[index] = RemoveAt(@, j),
                              !.size = @ - 1], FALSE),
            ret |-> "true"]
      ELSE [t |-> t, ret |-> "InvalidKey"]

\* variant: clear() that goes back to the initial capacity
clear_resetCapacity(t) ==
  [map |-> NewMap(INITIAL_CAPACITY), size |-> INITIAL_SIZE, capacity |-> INITIAL_CAPACITY]

clear(t) == [t EXCEPT !.map = NewMap(t.capacity), !.size = INITIAL_SIZE]

\* variant: operator[] that hands back ValueT() on a miss without inserting
index_access_noInsert(t, key) ==
  IF at(t, key) # KeyNotFound
  THEN [t |-> t, ret |-> at(t, key)]
  ELSE [t |-> t, ret |-> Default]

\* operator[] (mutable): at(), and on the exception insert(key, ValueT()) and at()
index_access(t, key) ==
  IF at(t, key) # KeyNotFound
  THEN [t |-> t, ret |-> at(t, key)]
  ELSE LET t1 == insert(t, key, Default).t
       IN  [t |-> t1, ret |-> at(t1, key)]

\* one pass of the constructor's for body: overwrite on a key match in the
\* bucket (the continue stays in the bucket scan), then insert
CtorOne(t, key, value) ==
  LET index == get_hash_index(t, key)
      t1 == [t EXCEPT !.map[index] =
               [j \in DOMAIN @ |->
                  IF key = @[j].first /\ value # @[j].second
                  THEN [@[j] EXCEPT !.second = value]
                  ELSE @[j]]]
  IN  insert(t1, key, value).t

RECURSIVE CtorLoop(_, _, _, _)
CtorLoop(t, keys, values, i) ==
  IF i > Len(keys) THEN t
  ELSE CtorLoop(CtorOne(t, keys[i], values[i]), keys, values, i + 1)

\* variant: the loop starting one element late
construct_from_skipFirst(keys, values) ==
  IF Len(keys) # Len(values)
  THEN [t |-> NoTable, thrown |-> TRUE]
  ELSE [t |-> CtorLoop(HashMap0, keys, values, 2), thrown |-> FALSE]

\* the table built from the two vectors, or the runtime_error
construct_from(keys, values) ==
  IF Len(keys) # Len(values)
  THEN [t |-> NoTable, thrown |-> TRUE]
  ELSE [t |-> CtorLoop(HashMap0, keys, values, 1), thrown |-> FALSE]

\* ------------------------------------------------------------- iteration
cbegin(t) == [map_index |-> get_next_index_with_elements(t, 0), element_index |-> 0]
cend(t)   == [map_index |-> t.capacity, element_index |-> 0]

\* ConstIterator::operator++
Advance(t, it) ==
  IF it.element_index + 1 >= Len(t.map[it.map_index])
  THEN [map_index |-> get_next_index_with_elements(t, it.map_index),
        element_index |-> 0]
  ELSE [it EXCEPT !.element_index = @ + 1]

\* ConstIterator::operator* (element_index counts from 0)
Deref(t, it) == t.map[it.map_index][it.element_index + 1]

\* for (auto &element : t): the entries visited, in order
RECURSIVE Walk(_, _)
Walk(t, it) ==
  IF it = cend(t) THEN <<>>
  ELSE <<Deref(t, it)>> \o Walk(t, Advance(t, it))

Traverse(t) == Walk(t, cbegin(t))

\* ------------------------------------------------- whole-table operations
\* insert() of each element of es in turn; ins follows the successful inserts
RECURSIVE InsertAll(_, _, _)
InsertAll(t, ins, es) ==
  IF es = <<>> THEN [t |-> t, ins |-> ins]
  ELSE LET r == insert(t, Head(es).first, Head(es).second)
       IN  InsertAll(r.t,
                     IF r.ret THEN [ins EXCEPT ![Head(es).first] = {Head(es).second}]
                     ELSE ins,
                     Tail(es))

NoneInserted == [k \in Keys |-> {}]

\* HashMap(const HashMap &hm)
CopyOf(hm) ==
  InsertAll([map |-> NewMap(hm.capacity), size |-> INITIAL_SIZE,
             capacity |-> hm.capacity],
            NoneInserted, Traverse(hm))

\* operator=(const HashMap &hm), this # &hm
AssignFrom(t, hm) == InsertAll(clear(t), NoneInserted, Traverse(hm))

\* operator==: the first element that decides, in traversal order
RECURSIVE AllMatch(_, _)
AllMatch(rhs, es) ==
  IF es = <<>> THEN TRUE
  ELSE IF at(rhs, Head(es).first) = KeyNotFound THEN FALSE   \* caught: false
  ELSE IF at(rhs, Head(es).first) # Head(es).second THEN FALSE
  ELSE AllMatch(rhs, Tail(es))

Equals(t, rhs) ==
  IF t.size # rhs.size THEN FALSE ELSE AllMatch(rhs, Traverse(t))

NotEquals(t, rhs) == ~Equals(t, rhs)

\* --------------------------------------------------- Dictionary::update
\* variant: the while body without the overwrite of a present key
UpdateOne_insertOnly(t, p) == insert(t, p.first, p.second).t

\* one pass of the while body for the pair p
UpdateOne(t, p) ==
  LET index == get_hash_index(t, p.first)
      t1 == [t EXCEPT !.map[index] =
               [j \in DOMAIN @ |->
                  IF p.first = @[j].first /\ p.second # @[j].second
                  THEN [@[j] EXCEPT !.second = p.second]
                  ELSE @[j]]]
  IN  insert(t1, p.first, p.second).t

RECURSIVE update(_, _)
update(t, ps) ==
  IF ps = <<>> THEN t ELSE update(UpdateOne(t, Head(ps)), Tail(ps))

\* ------------------------------------------------------- abstract views
\* the entries stored anywhere in the bucket array
Stored(t) == UNION {{t.map[i][j] : j \in 1..Len(t.map[i])} : i \in DOMAIN t.map}

RECURSIVE Range(_)
Range(s) == IF s = <<>> THEN {} ELSE {Head(s)} \cup Range(Tail(s))

Pairs == {Entry(k, v) : k \in Keys, v \in Values}
UpdSeqs == UNION {[1..n -> Pairs] : n \in 0..MaxUpd}

\* ------------------------------------------------------------ the machine
Call(name, o, args, seq) == [name |-> name, o |-> o, args |-> args, seq |-> seq]
Ret(tag, val) == [tag |-> tag, val |-> val]
Void == Ret("void", <<>>)

\* inserted[] after update(ps): a fresh key is inserted, a present key whose
\* value differs is overwritten
RECURSIVE UpdateIns(_, _, _)
UpdateIns(t, ins, ps) ==
  IF ps = <<>> THEN ins
  ELSE LET p == Head(ps)
       IN  UpdateIns(UpdateOne(t, p),
                     [ins EXCEPT ![p.first] =
                        IF ~contains_key(t, p.first) THEN {p.second}
                        ELSE IF at(t, p.first) # p.second THEN {}
                        ELSE @],
                     Tail(ps))

Init ==
  /\ hash_func \in [Keys -> 0..MaxHash]
  /\ obj = [o \in Objs |-> HashMap0]
  /\ kind \in {f \in [Objs -> Kinds] : f["b"] = "HashMap"}
  /\ inserted = [o \in Objs |-> NoneInserted]
  /\ op = Call("construct", "a", <<>>, <<>>)
  /\ ret = Void

Insert(o, key, value) ==
  LET r == insert(obj[o], key, value)
  IN  /\ obj' = [obj EXCEPT ![o] = r.t]
      /\ ret' = Ret(IF r.ret THEN "true" ELSE "false", <<>>)
      /\ inserted' = IF r.ret THEN [inserted EXCEPT ![o][key] = {value}] ELSE inserted
      /\ op' = Call("insert", o, <<key, value>>, <<>>)
      /\ UNCHANGED <<hash_func, kind>>

\* erase is virtual: the dynamic type picks the body
Erase(o, key) ==
  LET r == IF kind[o] = "Dictionary" THEN Dictionary_erase(obj[o], key)
           ELSE HashMap_erase(obj[o], key)
  IN  /\ obj' = [obj EXCEPT ![o] = r.t]
      /\ ret' = Ret(r.ret, <<>>)
      /\ inserted' = IF r.ret = "true" THEN [inserted EXCEPT ![o][key] = {}]
                     ELSE inserted
      /\ op' = Call("erase", o, <<key>>, <<>>)
      /\ UNCHANGED <<hash_func, kind>>

Clear(o) ==
  /\ obj' = [obj EXCEPT ![o] = clear(@)]
  /\ ret' = Void
  /\ inserted' = [inserted EXCEPT ![o] = NoneInserted]
  /\ op' = Call("clear", o, <<>>, <<>>)
  /\ UNCHANGED <<hash_func, kind>>

IndexAccess(o, key) ==
  LET r == index_access(obj[o], key)
  IN  /\ obj' = [obj EXCEPT ![o] = r.t]
      /\ ret' = Ret("ref", <<r.ret>>)
      /\ inserted' = IF contains_key(obj[o], key) THEN inserted
                     ELSE [inserted EXCEPT ![o][key] = {Default}]
      /\ op' = Call("index", o, <<key>>, <<>>)
      /\ UNCHANGED <<hash_func, kind>>

Update(o, ps) ==
  /\ kind[o] = "Dictionary"
  /\ obj' = [obj EXCEPT ![o] = update(@, ps)]
  /\ ret' = Void
  /\ inserted' = [inserted EXCEPT ![o] = UpdateIns(obj[o], @, ps)]
  /\ op' = Call("update", o, <<>>, ps)
  /\ UNCHANGED <<hash_func, kind>>

\* o is destroyed and constructed again as a copy of the other object
CopyConstruct(o, src) ==
  LET r == CopyOf(obj[src])
  IN  /\ o # src
      /\ obj' = [obj EXCEPT ![o] = r.t]
      /\ inserted' = [inserted EXCEPT ![o] = r.ins]
      /\ ret' = Void
      /\ op' = Call("copy", o, <<>>, <<>>)
      /\ UNCHANGED <<hash_func, kind>>

Assign(o, src) ==
  LET r == IF o = src THEN [t |-> obj[o], ins |-> inserted[o]]
           ELSE AssignFrom(obj[o], obj[src])
  IN  /\ obj' = [obj EXCEPT ![o] = r.t]
      /\ inserted' = [inserted EXCEPT ![o] = r.ins]
      /\ ret' = Void
      /\ op' = Call(IF o = src THEN "self_assign" ELSE "assign", o, <<>>, <<>>)
      /\ UNCHANGED <<hash_func, kind>>

\* what a const accessor hands back: the number, or the exception
Result(r) == IF r = KeyNotFound THEN Ret("KeyNotFound", <<>>) ELSE Ret("ref", <<r>>)

At(o, key) ==
  /\ ret' = Result(at(obj[o], key))
  /\ op' = Call("at", o, <<key>>, <<>>)
  /\ UNCHANGED <<hash_func, obj, kind, inserted>>

BucketSize(o, key) ==
  /\ ret' = Result(bucket_size(obj[o], key))
  /\ op' = Call("bucket_size", o, <<key>>, <<>>)
  /\ UNCHANGED <<hash_func, obj, kind, inserted>>

BucketIndex(o, key) ==
  /\ ret' = Result(bucket_index(obj[o], key))
  /\ op' = Call("bucket_index", o, <<key>>, <<>>)
  /\ UNCHANGED <<hash_func, obj, kind, inserted>>

KeyVecs == UNION {[1..n -> Keys] : n \in 0..MaxVec}
ValVecs == UNION {[1..n -> Values] : n \in 0..MaxVec}

\* object o starts its life through the two-vector constructor instead of
\* the default one; a constructor runs once, before any other call
ConstructFrom(o, keys, values) ==
  LET r == construct_from(keys, values)
  IN  /\ op.name = "construct"
      /\ obj' = [obj EXCEPT ![o] = r.t]
      /\ ret' = IF r.thrown THEN Ret("LengthMismatch", <<>>) ELSE Void
      /\ inserted' = [inserted EXCEPT ![o] =
                        IF r.thrown THEN NoneInserted
                        ELSE UpdateIns(HashMap0, NoneInserted,
                                       [i \in DOMAIN keys |-> Entry(keys[i], values[i])])]
      /\ op' = Call("construct_from", o, keys, values)
      /\ UNCHANGED <<hash_func, kind>>

\* one table, a HashMap or a Dictionary, under the operations of HashMap
Next ==
  \/ \E key \in Keys, value \in Values : Insert("a", key, value)
  \/ \E key \in Keys : Erase("a", key)
  \/ Clear("a")
  \/ \E key \in Keys : IndexAccess("a", key)

Spec == Init /\ [][Next]_vars

\* the same table with Dictionary::update as well
NextDict ==
  \/ Next
  \/ \E ps \in UpdSeqs : Update("a", ps)

SpecDict == Init /\ [][NextDict]_vars

\* the table of Spec with the const accessors that can throw
NextQuery ==
  \/ Next
  \/ \E key \in Keys : At("a", key)
  \/ \E key \in Keys : BucketSize("a", key)
  \/ \E key \in Keys : BucketIndex("a", key)

SpecQuery == Init /\ [][NextQuery]_vars

\* construction of table "a" from two vectors
NextCtor == \E keys \in KeyVecs, values \in ValVecs : ConstructFrom("a", keys, values)

SpecCtor == Init /\ [][NextCtor]_vars

\* GrowN distinct keys go into a default table, each time the smallest or the
\* largest key not yet in it; the hash is k -> k * m (m = 0: one bucket,
\* m = 1: std::hash of an integer)
GrowKeys == 1..GrowN

InitGrow ==
  /\ hash_func \in {[k \in GrowKeys |-> k * m] : m \in 0..MaxHash}
  /\ obj = [o \in Objs |-> HashMap0]
  /\ kind \in {f \in [Objs -> Kinds] : f["b"] = "HashMap"}
  /\ inserted = [o \in Objs |-> [k \in GrowKeys |-> {}]]
  /\ op = Call("construct", "a", <<>>, <<>>)
  /\ ret = Void

NextGrow ==
  \E key \in GrowKeys :
     LET absent == {k \in GrowKeys : ~contains_key(obj["a"], k)}
     IN  /\ key \in absent
         /\ \/ \A k \in absent : key <= k
            \/ \A k \in absent : key >= k
         /\ Insert("a", key, key % (MaxVal + 1))

SpecGrow == InitGrow /\ [][NextGrow]_vars

\* two tables under insert, erase and clear, with copies and assignments
\* between them
NextPair ==
  \/ \E o \in Objs, key \in Keys, value \in Values : Insert(o, key, value)
  \/ \E o \in Objs, key \in Keys : Erase(o, key)
  \/ \E o \in Objs : Clear(o)
  \/ \E o \in Objs, src \in Objs : CopyConstruct(o, src)
  \/ \E o \in Objs, src \in Objs : Assign(o, src)

SpecPair == Init /\ [][NextPair]_vars

\* ================================================================ claims
Other(o) == IF o = "a" THEN "b" ELSE "a"

IsPowerOfTwo(n) == \E e \in 0..6 : n = 2 ^ e

KeysOf(ps) == {ps[i].first : i \in DOMAIN ps}

\* the value of the last pair of ps whose key is k
LastValue(ps, k) ==
  LET i == CHOOSE i \in DOMAIN ps :
             ps[i].first = k /\ \A j \in DOMAIN ps : ps[j].first = k => j <= i
  IN  ps[i].second

\* C1: a full traversal begin()..end() visits exactly the live entries, each
\* once: as many as size(), and begin() = end() only for an empty table.
C1_TraversalVisitsLive ==
  \A o \in Objs :
     LET tr == Traverse(obj[o])
     IN  /\ Len(tr) = obj[o].size
         /\ Range(tr) = Stored(obj[o])
         /\ (cbegin(obj[o]) = cend(obj[o]) => obj[o].size = 0)

\* C2 as stated: whenever capacity > 1 and size > 0, the load factor lies in
\* [0.25, 0.75].
C2_LoadFactorInRange ==
  \A o \in Objs :
     (obj[o].capacity > 1 /\ obj[o].size > 0) =>
        /\ obj[o].size * 100 >= LOWER_LOAD_FACTOR * obj[o].capacity
        /\ obj[o].size * 100 <= UPPER_LOAD_FACTOR * obj[o].capacity

\* C2 amended: the load factor never exceeds 0.75, and right after a
\* successful erase it is at least 0.25 unless capacity is 1.
C2_LoadFactorAmended ==
  /\ \A o \in Objs : obj[o].size * 100 <= UPPER_LOAD_FACTOR * obj[o].capacity
  /\ (op.name = "erase" /\ ret.tag = "true" /\ obj[op.o].capacity > MIN_CAPACITY)
        => obj[op.o].size * 100 >= LOWER_LOAD_FACTOR * obj[op.o].capacity

\* a successful erase whose shrink loop halved 16 down to 4 and stopped at 0.25
C2_Witness ==
  /\ op.name = "erase" /\ ret.tag = "true"
  /\ obj[op.o].capacity = 4 /\ obj[op.o].size = 1

\* C3: capacity is always a power of two and at least 1, on both tables,
\* under inserts, erases, clears, copies and assignments.
C3_CapacityPowerOfTwo ==
  \A o \in Objs : obj[o].capacity >= 1 /\ IsPowerOfTwo(obj[o].capacity)

\* a table erased down to empty: the shrink loop stopped at MIN_CAPACITY
C3_Witness ==
  /\ op.name = "erase" /\ ret.tag = "true"
  /\ obj[op.o].size = 0 /\ obj[op.o].capacity = MIN_CAPACITY

\* C4: a key put in by a successful insert with value v, and not erased or
\* overwritten since, is contained and at() gives v.
C4_RoundTrip ==
  \A o \in Objs, k \in Keys :
     inserted[o][k] # {} =>
        contains_key(obj[o], k) /\ inserted[o][k] = {at(obj[o], k)}

\* key 1 went in first; the insert of key 2 then grew the table from 2 to 4
\* buckets and the rehash moved key 1 from bucket 0 to bucket 2
C4_Witness ==
  /\ op.name = "insert" /\ op.args[1] = 2 /\ ret.tag = "true"
  /\ obj[op.o].capacity = 4 /\ obj[op.o].size = 2
  /\ hash_func[1] = 2 /\ inserted[op.o][1] = {1}

\* C5: insert(k, v2) with k present returns false and leaves the whole table
\* (size, capacity, every bucket) as it was.
C5_FirstInsertWins ==
  [][(op'.name = "insert" /\ contains_key(obj[op'.o], op'.args[1])) =>
        /\ ret'.tag = "false"
        /\ obj' = obj
        /\ at(obj'[op'.o], op'.args[1]) = at(obj[op'.o], op'.args[1])]_vars

\* a refused insert whose value differs from the stored one
C5_Witness ==
  /\ op.name = "insert" /\ ret.tag = "false"
  /\ at(obj[op.o], op.args[1]) # op.args[2]
  /\ at(obj[op.o], op.args[1]) # KeyNotFound

\* C6: erase(k) with k present returns true, takes 1 off size, makes k
\* absent and keeps every other key with its value.
C6_ErasePresent ==
  [][(op'.name = "erase" /\ contains_key(obj[op'.o], op'.args[1])) =>
        /\ ret'.tag = "true"
        /\ obj'[op'.o].size = obj[op'.o].size - 1
        /\ ~contains_key(obj'[op'.o], op'.args[1])
        /\ \A k \in Keys \ {op'.args[1]} :
              at(obj'[op'.o], k) = at(obj[op'.o], k)]_vars

\* an erase that shrank the table and left another key in it
C6_Witness ==
  /\ op.name = "erase" /\ ret.tag = "true"
  /\ obj[op.o].capacity = 4 /\ obj[op.o].size = 1
  /\ \E k \in Keys \ {op.args[1]} : contains_key(obj[op.o], k)

\* C7: erase(k) with k absent returns false on a HashMap and throws
\* InvalidKey on a Dictionary, the table unchanged either way; erasing the
\* same key again right after a successful Dictionary erase throws.
C7_EraseAbsent ==
  [][/\ (op'.name = "erase" /\ ~contains_key(obj[op'.o], op'.args[1])) =>
           /\ obj' = obj
           /\ ret'.tag = IF kind[op'.o] = "Dictionary" THEN "InvalidKey"
                         ELSE "false"
     /\ (/\ op.name = "erase" /\ ret.tag = "true" /\ kind[op.o] = "Dictionary"
         /\ op'.name = "erase" /\ op'.o = op.o /\ op'.args = op.args) =>
           /\ obj' = obj
           /\ ret'.tag = "InvalidKey"]_vars

\* InvalidKey thrown by a Dictionary that still holds another key
C7_Witness ==
  /\ op.name = "erase" /\ ret.tag = "InvalidKey"
  /\ kind[op.o] = "Dictionary" /\ obj[op.o].size > 0

\* C8: L == R is true exactly when the sizes agree and every live entry of L
\* is in R with the same value; != is the negation.
C8_EqualityIffSameEntries ==
  \A l \in Objs :
     LET L == obj[l]
         R == obj[Other(l)]
     IN  /\ Equals(L, R) <=>
              /\ L.size = R.size
              /\ \A e \in Stored(L) : at(R, e.first) = e.second
         /\ NotEquals(L, R) <=> ~Equals(L, R)

\* C9: copy construction gives a table with the capacity, the size and the
\* entries of the source, and leaves the source as it was.
C9_CopySameEntries ==
  [][op'.name = "copy" =>
        LET src == Other(op'.o)
        IN  /\ obj'[op'.o].capacity = obj[src].capacity
            /\ obj'[op'.o].size = obj[src].size
            /\ Stored(obj'[op'.o]) = Stored(obj[src])
            /\ obj'[src] = obj[src]]_vars

\* C10: after update(ps) every key of ps has the value of its last pair,
\* every other key is as before, size grew by the number of keys of ps that
\* were absent, and nothing was thrown.
C10_UpdateMerges ==
  [][op'.name = "update" =>
        LET ps  == op'.seq
            old == obj[op'.o]
            new == obj'[op'.o]
        IN  /\ ret'.tag = "void"
            /\ \A k \in KeysOf(ps) : at(new, k) = LastValue(ps, k)
            /\ \A k \in Keys \ KeysOf(ps) : at(new, k) = at(old, k)
            /\ new.size =
                 old.size + Cardinality({k \in KeysOf(ps) : ~contains_key(old, k)})]_vars

\* an update naming one key twice with different values: the last one stays
C10_Witness ==
  /\ op.name = "update" /\ Len(op.seq) = 2
  /\ op.seq[1].first = op.seq[2].first
  /\ op.seq[1].second # op.seq[2].second
  /\ at(obj[op.o], op.seq[2].first) = op.seq[2].second

\* C11: operator[](k) never fails; with k present it returns the stored value
\* and changes nothing; with k absent it inserts k with ValueT(), size grows
\* by 1, the growth check has run, and k is contained with value ValueT().
C11_IndexAccess ==
  [][op'.name = "index" =>
        LET k   == op'.args[1]
            old == obj[op'.o]
            new == obj'[op'.o]
        IN  /\ ret'.tag = "ref"
            /\ contains_key(old, k) =>
                  /\ ret'.val = <<at(old, k)>>
                  /\ obj' = obj
            /\ ~contains_key(old, k) =>
                  /\ new.size = old.size + 1
                  /\ contains_key(new, k)
                  /\ at(new, k) = Default
                  /\ ret'.val = <<Default>>
                  /\ ~LoadAbove(new)
                  /\ \A j \in Keys \ {k} : at(new, j) = at(old, j)]_vars

\* operator[] on a miss in a table emptied down to capacity 1: the insert made
\* the load 1/1 and the growth check doubled the capacity
C11_Witness ==
  /\ op.name = "index" /\ ret.val = <<Default>>
  /\ inserted[op.o][op.args[1]] = {Default}
  /\ obj[op.o].capacity = 2 /\ obj[op.o].size = 1

\* C12: at, bucket_size and bucket_index throw KeyNotFound exactly when the
\* key is in no entry of the table, and change nothing; for a present key
\* bucket_index is hash(k) mod capacity and bucket_size is the number of
\* live entries whose key has that index, at least 1.
C12_Accessors ==
  [][op'.name \in {"at", "bucket_size", "bucket_index"} =>
        LET k       == op'.args[1]
            t       == obj[op'.o]
            present == \E e \in Stored(t) : e.first = k
            idx     == hash_func[k] % t.capacity
            n       == Cardinality({e \in Stored(t) :
                                      hash_func[e.first] % t.capacity = idx})
        IN  /\ obj' = obj
            /\ ret'.tag = "KeyNotFound" <=> ~present
            /\ present =>
                 /\ ret'.tag = "ref"
                 /\ op'.name = "at" => Entry(k, ret'.val[1]) \in Stored(t)
                 /\ op'.name = "bucket_index" => ret'.val = <<idx>>
                 /\ op'.name = "bucket_size" => ret'.val = <<n>> /\ n >= 1]_vars

\* bucket_size of a key that shares its bucket with another key
C12_Witness ==
  /\ op.name = "bucket_size" /\ ret.val = <<2>>
  /\ obj[op.o].capacity = 4

\* C13: the two-vector constructor throws LengthMismatch exactly when the
\* vectors differ in length, and then there is no table; with equal lengths
\* and pairwise distinct keys the table has one entry per position and
\* at(keys[i]) = values[i].
C13_ConstructFrom ==
  [][op'.name = "construct_from" =>
        LET keys     == op'.args
            values   == op'.seq
            t        == obj'[op'.o]
            distinct == \A i, j \in DOMAIN keys : keys[i] = keys[j] => i = j
        IN  /\ ret'.tag = "LengthMismatch" <=> Len(keys) # Len(values)
            /\ Len(keys) # Len(values) => t = NoTable
            /\ (Len(keys) = Len(values) /\ distinct) =>
                  /\ t.size = Len(keys)
                  /\ \A i \in DOMAIN keys : at(t, keys[i]) = values[i]]_vars

\* a table built from two distinct keys
C13_Witness ==
  /\ op.name = "construct_from" /\ ret.tag = "void"
  /\ Len(op.args) = 2 /\ op.args[1] # op.args[2]
  /\ obj[op.o].size = 2

\* C14: from an empty table of capacity 16, inserts of distinct keys keep the
\* capacity at 16 up to the 12th, the 13th makes it 32 with all 13 keys
\* retrievable with their values, and a successful insert changes capacity
\* only when the new size exceeds 0.75 of the capacity.
C14_GrowthThreshold ==
  [][(op'.name = "insert" /\ ret'.tag = "true") =>
        LET old == obj[op'.o]
            new == obj'[op'.o]
            in  == {k \in GrowKeys : inserted'[op'.o][k] # {}}
        IN  /\ new.size = old.size + 1
            /\ new.size <= 12 => new.capacity = 16
            /\ new.size = 13 =>
                  /\ new.capacity = 32
                  /\ Cardinality(in) = 13
                  /\ \A k \in in : inserted'[op'.o][k] = {at(new, k)}
            /\ new.capacity # old.capacity =>
                  new.size * 100 > UPPER_LOAD_FACTOR * old.capacity]_vars

\* the 13th insert has doubled the capacity
C14_Witness ==
  /\ op.name = "insert" /\ ret.tag = "true"
  /\ obj[op.o].size = 13 /\ obj[op.o].capacity = 32

\* C15: clear() sets size to 0, leaves capacity as it was, and leaves no key
\* contained: contains_key is false for every key and the traversal is empty.
C15_Clear ==
  [][op'.name = "clear" =>
        LET old == obj[op'.o]
            new == obj'[op'.o]
        IN  /\ new.size = 0
            /\ new.capacity = old.capacity
            /\ \A k \in Keys : ~contains_key(new, k)
            /\ Traverse(new) = <<>>
            /\ Stored(new) = {}]_vars

\* a table cleared at capacity 4, which only two live entries lead to
C15_Witness ==
  /\ op.name = "clear"
  /\ obj[op.o].capacity = 4 /\ obj[op.o].size = 0

\* C16: the resize loops run until the threshold is restored: after a
\* successful insert the load factor is at most 0.75, after a successful erase
\* it is at least 0.25 or capacity is 1; clears, copies and assignments into
\* tables of any capacity included.
C16_ResizeRestoresThreshold ==
  [][LET new == obj'[op'.o]
     IN  /\ (op'.name = "insert" /\ ret'.tag = "true") => ~LoadAbove(new)
         /\ (op'.name = "erase" /\ ret'.tag = "true") =>
               (~LoadBelow(new) \/ new.capacity = 1)]_vars

\* a successful erase on "a" whose shrink loop stopped at capacity 4 with one
\* entry left, next to a table "b" that holds two entries at capacity 4
C16_Witness ==
  /\ op.name = "erase" /\ ret.tag = "true" /\ op.o = "a"
  /\ obj["a"].capacity = 4 /\ obj["a"].size = 1
  /\ obj["b"].capacity = 4 /\ obj["b"].size = 2

\* C17: growth and shrink are mutually exclusive per call: insert and
\* operator[] never decrease capacity, erase never increases it, and a call
\* that leaves size unchanged (failed insert, erase of an absent key, lookup)
\* leaves capacity unchanged.
C17_GrowShrinkExclusive ==
  [][LET old == obj[op'.o]
         new == obj'[op'.o]
     IN  /\ op'.name \in {"insert", "index"} => new.capacity >= old.capacity
         /\ op'.name = "erase" => new.capacity <= old.capacity
         /\ (op'.name \in {"insert", "index", "erase", "at", "bucket_size",
                           "bucket_index"} /\ new.size = old.size)
               => new.capacity = old.capacity]_vars

\* a failed insert into a table at load factor 1/16, below the lower bound:
\* the capacity stays
C17_Witness ==
  /\ op.name = "insert" /\ ret.tag = "false"
  /\ obj[op.o].capacity = 16 /\ obj[op.o].size = 1

\* C18: a = b between two distinct tables leaves b unchanged and makes a hold
\* exactly the entries of b (same size, at(k) equal for every key of b, no
\* other keys), whatever a held and whatever the capacities are; a = a leaves
\* a unchanged.
C18_Assignment ==
  [][/\ op'.name = "assign" =>
           LET a == obj'[op'.o]
               b == obj[Other(op'.o)]
           IN  /\ obj'[Other(op'.o)] = b
               /\ a.size = b.size
               /\ \A k \in Keys : at(a, k) = at(b, k)
     /\ op'.name = "self_assign" => obj' = obj]_vars

\* the number of entries over all buckets from index i on
RECURSIVE EntryCount(_, _)
EntryCount(t, i) ==
  IF i >= t.capacity THEN 0 ELSE Len(t.map[i]) + EntryCount(t, i + 1)

\* C19: structural invariant: every live entry is in bucket hash(key) mod
\* capacity, no key occurs in two entries of the table, size is the number of
\* entries over all buckets, and a rehash to the doubled or the halved
\* capacity keeps the set of (key, value) entries, the size and the placement.
C19_Structure ==
  \A o \in Objs :
     LET t == obj[o]
         Placed(u) == \A i \in 0..(u.capacity - 1) : \A j \in 1..Len(u.map[i]) :
                         hash_func[u.map[i][j].first] % u.capacity = i
         up == resize_map([t EXCEPT !.capacity = @ * 2], t.capacity)
         down == resize_map([t EXCEPT !.capacity = @ \div 2], t.capacity)
     IN  /\ DOMAIN t.map = 0..(t.capacity - 1)
         /\ Placed(t)
         /\ \A i1, i2 \in DOMAIN t.map : \A j1 \in 1..Len(t.map[i1]) :
               \A j2 \in 1..Len(t.map[i2]) :
                  t.map[i1][j1].first = t.map[i2][j2].first => (i1 = i2 /\ j1 = j2)
         /\ t.size = EntryCount(t, 0)
         /\ Stored(up) = Stored(t) /\ up.size = t.size /\ Placed(up)
         /\ t.capacity > MIN_CAPACITY =>
               (Stored(down) = Stored(t) /\ down.size = t.size /\ Placed(down))

\* two live entries in buckets 0 and 2 of a table of capacity 4, which a
\* rehash to capacity 2 puts together into bucket 0
C19_Witness ==
  LET t == obj["a"]
      down == resize_map([t EXCEPT !.capacity = @ \div 2], t.capacity)
  IN  /\ t.capacity = 4 /\ Len(t.map[0]) = 1 /\ Len(t.map[2]) = 1
      /\ Len(down.map[0]) = 2

\* C20: equality is symmetric: (A == B) gives the same result as (B == A),
\* whatever the capacities and the bucket placement of the two tables.
C20_EqualitySymmetric ==
  Equals(obj["a"], obj["b"]) = Equals(obj["b"], obj["a"])

====
